---- MODULE Spec2Model ----
(***************************************************************************)
(* A model of unrpa: the extraction driver UnRPA (src/unrpa/__init__.py)   *)
(* and the RPA-9.1 cipher post-processor (src/unrpa/versions/rpa91.py).    *)
(*                                                                         *)
(* Python values are represented as follows.                               *)
(*   bytes / str        a sequence of byte values / of code points         *)
(*   Optional[T]        None == <<>>, Some(x) == <<x>>                     *)
(*   tuple, list        a sequence                                         *)
(*   dict               a sequence of <<key, value>> pairs with distinct   *)
(*                      keys, in insertion order                           *)
(*   a raised exception a record [type, args]; type "None" when there is   *)
(*                      none                                               *)
(***************************************************************************)
EXTENDS Integers, Sequences, FiniteSets, TLC

VARIABLES
    self,           \* the UnRPA object: the fields __init__ sets
    root,           \* what self.path is on disk: "missing" | "dir" | "file"
    os_sep,         \* os.sep of the host, as a code point
    archive_file,   \* the archive on disk: [ext, header, preamble, blob]
    pc,             \* position of the driver (or of postprocess)
    archive,        \* the archive stream of extract_files: "closed" | "open"
    version,        \* the local `version` of extract_files
    used,           \* the locals (offset, key) of get_index
    index,          \* the local `index` of extract_files (a dict)
    file_number,    \* the loop counter of extract_files
    view,           \* the local `file_view` of extract_files
    sinks,          \* the output files currently open
    made,           \* directories created by os.makedirs
    opened,         \* the output paths opened "wb", in order
    extracted,      \* file numbers whose postprocess returned
    failed,         \* file numbers whose processing raised
    printed,        \* what print() has written, in order
    effects,        \* calls made on the archive file, in order
    exc,            \* the exception in flight or propagated
    use_numpy,      \* RPA91.use_numpy
    plain,          \* the bytes of the ArchiveView given to postprocess
    source,         \* the bytes of that view not read yet
    sink,           \* the bytes written to the sink of postprocess
    nfiles          \* files post-processed so far by this RPA91 instance

vars == <<self, root, os_sep, archive_file, pc, archive, version, used, index,
          file_number, view, sinks, made, opened, extracted, failed, printed,
          effects, exc, use_numpy, plain, source, sink, nfiles>>

driver_vars == <<self, root, os_sep, archive_file, archive, version, used,
                 index, file_number, view, sinks, made, opened, extracted,
                 failed, printed, effects, exc>>

cipher_vars == <<use_numpy, plain, source, sink, nfiles>>

-----------------------------------------------------------------------------
(* Bounds of the model. *)

MaxFileLen == 4      \* longest payload given to postprocess
MaxChunk == 3        \* longest chunk one read1 returns
MaxFiles == 2        \* files post-processed by one RPA91 instance
MaxTotalParts == 2   \* Parts of a deserialized index, over all its entries
MaxFailures == 2     \* injected I/O failures in one extraction run

-----------------------------------------------------------------------------
(* Python values. *)

None == <<>>
Some(x) == <<x>>
IsNone(o) == Len(o) = 0
Get(o) == o[1]

Min(a, b) == IF a < b THEN a ELSE b

\* int.__xor__ on non-negative integers
RECURSIVE Xor(_, _)
Xor(a, b) ==
    IF a = 0 THEN b
    ELSE IF b = 0 THEN a
    ELSE (((a % 2) + (b % 2)) % 2) + (2 * Xor(a \div 2, b \div 2))

NoExc == [type |-> "None", args |-> <<>>]
Raise(t, a) == [type |-> t, args |-> a]

\* dict.__setitem__: a present key keeps its place and takes the new value
RECURSIVE DictSet(_, _, _)
DictSet(d, k, v) ==
    IF d = <<>> THEN << <<k, v>> >>
    ELSE IF Head(d)[1] = k THEN << <<k, v>> >> \o Tail(d)
    ELSE <<Head(d)>> \o DictSet(Tail(d), k, v)

\* dict(pairs): the pairs inserted in order
RECURSIVE DictOf(_)
DictOf(pairs) ==
    IF pairs = <<>> THEN <<>>
    ELSE LET n == Len(pairs)
         IN  DictSet(DictOf(SubSeq(pairs, 1, n - 1)), pairs[n][1], pairs[n][2])

Keys(d) == {d[i][1] : i \in 1..Len(d)}

-----------------------------------------------------------------------------
(* RPA91: the cipher post-processor (src/unrpa/versions/rpa91.py). *)

\* RPA91.magic_bytes (0xF6, 0x02, 0x3F, ...), in decimal
magic_bytes ==
    <<246, 2, 63, 118, 77, 11, 128, 27, 41, 16, 223, 221, 116, 133, 222, 166,
      219, 125, 200, 25, 186, 227, 208, 99, 47, 80, 231, 85, 180, 103, 11, 251>>

\* RPA91.magic: numpy.frombuffer(bytes(magic_bytes)), the same 32 bytes
magic == magic_bytes

\* segment_array ^ self.magic[numpy.arange(len(segment_array)) & 31]:
\* the index restarts at 0 with every segment (i & 31 = i % 32, i >= 0)
xor_numpy(segment) ==
    [i \in 1..Len(segment) |-> Xor(segment[i], magic[((i - 1) % 32) + 1])]

\* magic_cycle = itertools.cycle(self.magic_bytes), made anew for every
\* segment; bytes(b ^ next(magic_cycle) for b in segment)
xor_itertools(segment) ==
    [i \in 1..Len(segment) |->
        Xor(segment[i], magic_bytes[((i - 1) % Len(magic_bytes)) + 1])]

\* the byte values the payloads of the model are made of
FileBytes == {0, 65, 255}

\* all byte strings over S of length at most n
BytesUpTo(S, n) == UNION {[1..k -> S] : k \in 0..n}

\* one round of `for segment in iter(source.read1, b"")` on the numpy path:
\* read1 returns a chunk of a size of its own choosing, which is written XORed
PostprocessNumpy ==
    /\ pc = "postprocess"
    /\ use_numpy
    /\ source # <<>>
    /\ \E n \in 1..Min(MaxChunk, Len(source)) :
          /\ sink' = sink \o xor_numpy(SubSeq(source, 1, n))
          /\ source' = SubSeq(source, n + 1, Len(source))
    /\ UNCHANGED <<pc, use_numpy, plain, nfiles>>
    /\ UNCHANGED driver_vars

\* the same round on the itertools path
PostprocessItertools ==
    /\ pc = "postprocess"
    /\ ~use_numpy
    /\ source # <<>>
    /\ \E n \in 1..Min(MaxChunk, Len(source)) :
          /\ sink' = sink \o xor_itertools(SubSeq(source, 1, n))
          /\ source' = SubSeq(source, n + 1, Len(source))
    /\ UNCHANGED <<pc, use_numpy, plain, nfiles>>
    /\ UNCHANGED driver_vars

\* read1 returns b"": the loop ends and postprocess returns
PostprocessReturn ==
    /\ pc = "postprocess"
    /\ source = <<>>
    /\ pc' = "postprocessed"
    /\ UNCHANGED cipher_vars
    /\ UNCHANGED driver_vars

\* the same RPA91 instance is given the next file's view and a fresh sink
PostprocessNextFile ==
    /\ pc = "postprocessed"
    /\ nfiles < MaxFiles
    /\ \E p \in BytesUpTo(FileBytes, MaxFileLen) :
          /\ plain' = p
          /\ source' = p
    /\ sink' = <<>>
    /\ nfiles' = nfiles + 1
    /\ pc' = "postprocess"
    /\ UNCHANGED use_numpy
    /\ UNCHANGED driver_vars

-----------------------------------------------------------------------------
(* Version handlers and detection. *)

\* bytes and str literals, as sequences of one-character strings
TagRPA32 == <<"R", "P", "A", "-", "3", ".", "2">>
TagRPA40 == <<"R", "P", "A", "-", "4", ".", "0">>
TagRPA91 == <<"R", "P", "A", "-", "9", ".", "1">>
TagFamily == <<"R", "P", "A", "-">>
ExtRpa == <<".", "r", "p", "a">>
ExtRpaUpper == <<".", "R", "P", "A">>
ExtRpi == <<".", "r", "p", "i">>

\* the Version types of the model: the three of src/unrpa/versions, a second
\* type claiming the RPA-3.2 header, and a headerless type known by extension
RPA32 == [name |-> "RPA-3.2", header |-> Some(TagRPA32), extension |-> None]
RPA40 == [name |-> "RPA-4.0", header |-> Some(TagRPA40), extension |-> None]
RPA91 == [name |-> "RPA-9.1", header |-> Some(TagRPA91), extension |-> None]
RPA32Twin == [name |-> "RPA-3.2-twin", header |-> Some(TagRPA32), extension |-> None]
RPA1 == [name |-> "RPA-1.0", header |-> None, extension |-> Some(ExtRpi)]

VersionTypes == {RPA32, RPA40, RPA91, RPA32Twin, RPA1}

\* bytes.startswith
startswith(s, prefix) ==
    /\ Len(prefix) <= Len(s)
    /\ SubSeq(s, 1, Len(prefix)) = prefix

\* str.lower, on the letters the model's extensions use
lower(s) ==
    [i \in 1..Len(s) |->
        CASE s[i] = "R" -> "r"
          [] s[i] = "P" -> "p"
          [] s[i] = "A" -> "a"
          [] s[i] = "I" -> "i"
          [] OTHER -> s[i]]

\* Version.detect(extension, header): a header-tagged type accepts a header
\* that starts with its tag; a headerless type accepts its extension when no
\* header tag of the family is present
detect(v, ext, header) ==
    IF ~IsNone(v.header)
    THEN startswith(header, Get(v.header))
    ELSE ext = Get(v.extension) /\ ~startswith(header, TagFamily)

\* UnRPA.detect_version, with a wrongly bounded ambiguity test
detect_version_gt2(s, f) ==
    LET ext == lower(f.ext)
        detected == {v \in s.versions : detect(v, ext, f.header)}
    IN  IF Cardinality(detected) > 2
        THEN [exc |-> Raise("AmbiguousArchiveError", detected), ret |-> None]
        ELSE IF detected = {}
        THEN [exc |-> Raise("UnknownArchiveError", f.header), ret |-> None]
        ELSE [exc |-> NoExc, ret |-> Some(CHOOSE v \in detected : TRUE)]

\* UnRPA.detect_version: the outcome, an exception or the detected version
detect_version(s, f) ==
    LET ext == lower(f.ext)
        detected == {v \in s.versions : detect(v, ext, f.header)}
    IN  IF Cardinality(detected) > 1
        THEN [exc |-> Raise("AmbiguousArchiveError", detected), ret |-> None]
        ELSE IF detected = {}
        THEN [exc |-> Raise("UnknownArchiveError", f.header), ret |-> None]
        ELSE [exc |-> NoExc, ret |-> Some(CHOOSE v \in detected : TRUE)]

\* version.find_offset_and_key(archive): the pair the archive's preamble
\* encodes. RPA91 returns the fixed key 0x126E6680; preamble[1] stands for the
\* offset it decodes (int(chunk[8:24], 16) ^ 0x46D96FA8FAD5262B, a 64-bit
\* value)
find_offset_and_key(v, f) ==
    IF v.name = "RPA-9.1"
    THEN <<f.preamble[1], Some(309224064)>>
    ELSE f.preamble

-----------------------------------------------------------------------------
(* Index resolution. *)

\* bytes.decode("utf-8", "replace") for one- and two-byte sequences: any other
\* byte becomes U+FFFD. The lead bytes of three- and four-byte sequences
\* (0xE0..0xF4) are outside the model's keys.
RECURSIVE utf8_replace(_)
utf8_replace(b) ==
    IF b = <<>> THEN <<>>
    ELSE IF b[1] < 128 THEN <<b[1]>> \o utf8_replace(Tail(b))
    ELSE IF /\ b[1] >= 194
            /\ b[1] <= 223
            /\ Len(b) >= 2
            /\ b[2] >= 128
            /\ b[2] <= 191
         THEN <<((b[1] - 192) * 64) + (b[2] - 128)>>
                  \o utf8_replace(SubSeq(b, 3, Len(b)))
    ELSE <<65533>> \o utf8_replace(Tail(b))

\* UnRPA.ensure_str_path
ensure_str_path(path) ==
    IF path.t = "str" THEN path.v ELSE utf8_replace(path.v)

\* str.replace("/", os.sep)
replace_sep(s, sep) == [i \in 1..Len(s) |-> IF s[i] = 47 THEN sep ELSE s[i]]

\* UnRPA.normalise_entry, canonicalizing the first Part only
normalise_entry_first(entry) ==
    [i \in 1..Len(entry) |->
        IF Len(entry[i]) = 2 /\ i = 1 THEN entry[i] \o << <<>> >> ELSE entry[i]]

\* UnRPA.normalise_entry
normalise_entry(entry) ==
    [i \in 1..Len(entry) |->
        IF Len(entry[i]) = 2 THEN entry[i] \o << <<>> >> ELSE entry[i]]

\* UnRPA.normalise_index
normalise_index(idx) ==
    [i \in 1..Len(idx) |-> <<idx[i][1], normalise_entry(idx[i][2])>>]

\* `for offset, length, start in ...` raises ValueError on a Part that does
\* not have three fields
unpack_raises(entry) ==
    \E i \in 1..Len(entry) : Len(normalise_entry(entry)[i]) # 3

\* UnRPA.deobfuscate_entry, where it does not raise
deobfuscate_entry(key, entry) ==
    LET n == normalise_entry(entry)
    IN  [i \in 1..Len(n) |-> <<Xor(n[i][1], key), Xor(n[i][2], key), n[i][3]>>]

\* UnRPA.deobfuscate_index
deobfuscate_index(key, idx) ==
    [i \in 1..Len(idx) |-> <<idx[i][1], deobfuscate_entry(key, idx[i][2])>>]

Effect(op, arg) == [op |-> op, arg |-> arg]

\* get_index, lines 153-158, asking the version whatever the caller supplied
offset_and_key_ignoring_override(s, v, f) ==
    [pair |-> find_offset_and_key(v, f),
     calls |-> <<Effect("find_offset_and_key", 0)>>]

\* get_index, lines 153-158: the (offset, key) pair used and the calls made on
\* the stream to get it. A 2-tuple is truthy whatever it holds.
offset_and_key(s, v, f) ==
    IF ~IsNone(s.offset_and_key)
    THEN [pair |-> <<Get(s.offset_and_key)[1], Some(Get(s.offset_and_key)[2])>>,
          calls |-> <<>>]
    ELSE [pair |-> find_offset_and_key(v, f),
          calls |-> <<Effect("find_offset_and_key", 0)>>]

\* get_index, lines 168-171: the dict comprehension keyed by resolved path
resolve_paths(normal_index, sep) ==
    DictOf([i \in 1..Len(normal_index) |->
              <<replace_sep(ensure_str_path(normal_index[i][1]), sep),
                normal_index[i][2]>>])

\* UnRPA.get_index(archive, version), called by extract_files with a version.
\* An exception leaves extract_files through `with open(...) as archive`.
GetIndex ==
    /\ pc = "get_index"
    /\ LET chosen == offset_and_key(self, Get(version), archive_file)
           pair == chosen.pair
           key == pair[2]
           raw == archive_file.blob.index
       IN  /\ used' = Some(pair)
           /\ effects' = effects \o chosen.calls
                            \o <<Effect("seek", pair[1]), Effect("read", 0)>>
           /\ IF ~archive_file.blob.ok
              THEN /\ exc' = Raise("zlib.error", <<>>)
                   /\ pc' = "raised"
                   /\ archive' = "closed"
                   /\ UNCHANGED index
              ELSE IF ~IsNone(key) /\ \E i \in 1..Len(raw) : unpack_raises(raw[i][2])
              THEN /\ exc' = Raise("ValueError", <<>>)
                   /\ pc' = "raised"
                   /\ archive' = "closed"
                   /\ UNCHANGED index
              ELSE /\ index' = resolve_paths(
                                  IF ~IsNone(key)
                                  THEN deobfuscate_index(Get(key), raw)
                                  ELSE normalise_index(raw),
                                  os_sep)
                   /\ pc' = "loop"
                   /\ UNCHANGED <<exc, archive>>
    /\ UNCHANGED <<self, root, os_sep, archive_file, version, file_number, view,
                   sinks, made, opened, extracted, failed, printed>>
    /\ UNCHANGED cipher_vars

-----------------------------------------------------------------------------
(* The extraction driver: UnRPA.extract_files. *)

\* UnRPA.error, UnRPA.info, UnRPA.debug
error == 0
info == 1
debug == 2

Msg(kind, arg) == [kind |-> kind, arg |-> arg]

\* UnRPA.log(verbosity, human_message): what has been printed after the call.
\* The guard requires self.tty, so machine_message is never printed.
log(s, out, verbosity, human_message) ==
    IF s.tty /\ s.verbose > verbosity
    THEN Append(out, [file |-> IF verbosity = error THEN "stderr" ELSE "stdout",
                      text |-> human_message])
    ELSE out

\* os.path.isdir, passing a path that does not exist
isdir_unless_missing(r) == r # "file"

\* os.path.isdir(self.path)
isdir(r) == r = "dir"

\* str.rstrip(sep), kept whole when it is all separators
RECURSIVE rstrip(_, _)
rstrip(s, sep) ==
    IF s = <<>> \/ s[Len(s)] # sep THEN s ELSE rstrip(SubSeq(s, 1, Len(s) - 1), sep)

\* os.path.split(path)[0]
dirname(path, sep) ==
    LET at == {i \in 1..Len(path) : path[i] = sep}
        last == CHOOSE i \in at : \A j \in at : j <= i
        head == SubSeq(path, 1, last)
    IN  IF at = {} THEN <<>>
        ELSE IF rstrip(head, sep) = <<>> THEN head
        ELSE rstrip(head, sep)

\* os.path.exists(os.path.join(self.path, head)), in an output root that held
\* no directory when the run began
exists(head, dirs) == head = <<>> \/ head \in dirs

\* os.makedirs(os.path.join(self.path, head)): the directories on disk after
makedirs(head, dirs, sep) ==
    dirs \cup {head}
         \cup {SubSeq(head, 1, i - 1) : i \in {j \in 2..Len(head) : head[j] = sep}}

\* line 111-119, handling every error by re-raising
except_clause_always_raises(s) == "raise"

\* lines 111-119: what the except clause does with a caught error
except_clause(s) == IF s.continue_on_error THEN "log_and_continue" ELSE "raise"

\* `with open(...) as output_file` at line 109, closing the sink on the
\* normal exit only
with_exit_leaks_on_error(open_sinks, path, e) ==
    IF e.type = "None" THEN open_sinks \ {path} ELSE open_sinks

\* `with open(...) as output_file` at line 109: the sinks open after the block
\* is left, normally or by exception e
with_exit(open_sinks, path, e) == open_sinks \ {path}

\* the current (path, data) of `enumerate(index.items())`
item == index[file_number + 1]

\* an I/O failure may be injected while fewer than MaxFailures entries failed
CanFail == Cardinality(failed) < MaxFailures

\* whether a call that does I/O returns (TRUE) or raises (FALSE)
Outcomes == IF CanFail THEN BOOLEAN ELSE {TRUE}

\* extract_files, lines 86-90
ExtractFiles ==
    /\ pc = "extract_files"
    /\ LET p1 == log(self, printed, error, Msg("Extracting files.", <<>>))
           p2 == IF self.mkdir
                 THEN log(self, p1, debug, Msg("Creating directory structure", <<>>))
                 ELSE p1
           r == IF self.mkdir /\ root = "missing" THEN "dir" ELSE root
       IN  /\ printed' = p2
           /\ root' = r
           /\ IF ~isdir(r)
              THEN /\ exc' = Raise("OutputDirectoryNotFoundError", <<>>)
                   /\ pc' = "raised"
              ELSE /\ pc' = "select_version"
                   /\ UNCHANGED exc
    /\ UNCHANGED <<self, os_sep, archive_file, archive, version, used, index,
                   file_number, view, sinks, made, opened, extracted, failed,
                   effects>>
    /\ UNCHANGED cipher_vars

\* extract_files, line 92: self.version() if self.version else
\* self.detect_version(), which opens the archive by itself to read its header
SelectVersion ==
    /\ pc = "select_version"
    /\ IF ~IsNone(self.version)
       THEN /\ version' = self.version
            /\ pc' = "open_archive"
            /\ UNCHANGED <<effects, exc>>
       ELSE LET d == detect_version(self, archive_file)
            IN  /\ effects' = effects \o <<Effect("detect.open", 0),
                                           Effect("detect.readline", 0),
                                           Effect("detect.close", 0)>>
                /\ IF d.exc.type # "None"
                   THEN /\ exc' = d.exc
                        /\ pc' = "raised"
                        /\ UNCHANGED version
                   ELSE /\ version' = d.ret
                        /\ pc' = "open_archive"
                        /\ UNCHANGED exc
    /\ UNCHANGED <<self, root, os_sep, archive_file, archive, used, index,
                   file_number, view, sinks, made, opened, extracted, failed,
                   printed>>
    /\ UNCHANGED cipher_vars

\* extract_files, line 94: open(self.archive, "rb")
OpenArchive ==
    /\ pc = "open_archive"
    /\ archive' = "open"
    /\ effects' = Append(effects, Effect("open", 0))
    /\ pc' = "get_index"
    /\ UNCHANGED <<self, root, os_sep, archive_file, version, used, index,
                   file_number, view, sinks, made, opened, extracted, failed,
                   printed, exc>>
    /\ UNCHANGED cipher_vars

\* extract_files, line 97: the loop takes the next item of index.items()
NextEntry ==
    /\ pc = "loop"
    /\ file_number < Len(index)
    /\ pc' = "entry_mkdir"
    /\ UNCHANGED driver_vars
    /\ UNCHANGED cipher_vars

\* extract_files, line 97: the items are exhausted; the archive is closed
ExtractFilesReturn ==
    /\ pc = "loop"
    /\ file_number = Len(index)
    /\ archive' = "closed"
    /\ pc' = "done"
    /\ UNCHANGED <<self, root, os_sep, archive_file, version, used, index,
                   file_number, view, sinks, made, opened, extracted, failed,
                   printed, effects, exc>>
    /\ UNCHANGED cipher_vars

\* extract_files, lines 99-101: make_directory_structure for the entry's
\* directory; os.makedirs may raise
MakeDirectoryStructure ==
    /\ pc = "entry_mkdir"
    /\ LET head == dirname(item[1], os_sep)
       IN  /\ printed' = log(self, printed, debug,
                             Msg("Creating directory structure", head))
           /\ IF exists(head, made)
              THEN /\ pc' = "entry_view"
                   /\ UNCHANGED <<made, failed, exc>>
              ELSE \E ok \in Outcomes :
                      IF ok
                      THEN /\ made' = makedirs(head, made, os_sep)
                           /\ pc' = "entry_view"
                           /\ UNCHANGED <<failed, exc>>
                      ELSE /\ exc' = Raise("OSError", <<>>)
                           /\ failed' = failed \cup {file_number}
                           /\ pc' = "entry_except"
                           /\ UNCHANGED made
    /\ UNCHANGED <<self, root, os_sep, archive_file, archive, version, used,
                   index, file_number, view, sinks, opened, extracted, effects>>
    /\ UNCHANGED cipher_vars

\* extract_files, lines 102-108: extract_file logs the progress, unpacks the
\* entry's first Part and builds the ArchiveView
ExtractFile ==
    /\ pc = "entry_view"
    /\ printed' = log(self, printed, info, Msg("progress", item[1]))
    /\ IF item[2] = <<>>
       THEN /\ exc' = Raise("StopIteration", <<>>)
            /\ failed' = failed \cup {file_number}
            /\ pc' = "entry_except"
            /\ UNCHANGED view
       ELSE IF Len(item[2][1]) # 3
       THEN /\ exc' = Raise("ValueError", <<>>)
            /\ failed' = failed \cup {file_number}
            /\ pc' = "entry_except"
            /\ UNCHANGED view
       ELSE /\ view' = Some(item[2][1])
            /\ pc' = "entry_open"
            /\ UNCHANGED <<failed, exc>>
    /\ UNCHANGED <<self, root, os_sep, archive_file, archive, version, used,
                   index, file_number, sinks, made, opened, extracted, effects>>
    /\ UNCHANGED cipher_vars

\* extract_files, line 109: open(os.path.join(self.path, path), "wb")
OpenSink ==
    /\ pc = "entry_open"
    /\ \E ok \in Outcomes :
          IF ok
          THEN /\ sinks' = sinks \cup {item[1]}
               /\ opened' = Append(opened, item[1])
               /\ pc' = "entry_postprocess"
               /\ UNCHANGED <<failed, exc>>
          ELSE /\ exc' = Raise("OSError", <<>>)
               /\ failed' = failed \cup {file_number}
               /\ pc' = "entry_except"
               /\ UNCHANGED <<sinks, opened>>
    /\ UNCHANGED <<self, root, os_sep, archive_file, archive, version, used,
                   index, file_number, view, made, extracted, printed, effects>>
    /\ UNCHANGED cipher_vars

\* extract_files, line 110: version.postprocess(file_view, output_file)
\* returns or raises
Postprocess ==
    /\ pc = "entry_postprocess"
    /\ \E ok \in Outcomes :
          IF ok
          THEN /\ extracted' = extracted \cup {file_number}
               /\ UNCHANGED <<failed, exc>>
          ELSE /\ exc' = Raise("OSError", <<>>)
               /\ failed' = failed \cup {file_number}
               /\ UNCHANGED extracted
    /\ effects' = Append(effects, Effect("view.read", Get(view)[1]))
    /\ pc' = "entry_close"
    /\ UNCHANGED <<self, root, os_sep, archive_file, archive, version, used,
                   index, file_number, view, sinks, made, opened, printed>>
    /\ UNCHANGED cipher_vars

\* extract_files, line 109: the with block is left and closes the sink; the
\* loop goes on, or the exception reaches the except clause
CloseSink ==
    /\ pc = "entry_close"
    /\ sinks' = with_exit(sinks, item[1], exc)
    /\ IF exc.type = "None"
       THEN /\ file_number' = file_number + 1
            /\ view' = None
            /\ pc' = "loop"
       ELSE /\ pc' = "entry_except"
            /\ UNCHANGED <<file_number, view>>
    /\ UNCHANGED <<self, root, os_sep, archive_file, archive, version, used,
                   index, made, opened, extracted, failed, printed, effects,
                   exc>>
    /\ UNCHANGED cipher_vars

\* extract_files, lines 111-119: except BaseException
ExceptClause ==
    /\ pc = "entry_except"
    /\ IF except_clause(self) = "log_and_continue"
       THEN /\ printed' = log(self, printed, error,
                              Msg("Error extracting from the archive", item[1]))
            /\ exc' = NoExc
            /\ file_number' = file_number + 1
            /\ view' = None
            /\ pc' = "loop"
            /\ UNCHANGED archive
       ELSE /\ exc' = Raise("ErrorExtractingFile", <<>>)
            /\ archive' = "closed"
            /\ pc' = "raised"
            /\ UNCHANGED <<printed, file_number, view>>
    /\ UNCHANGED <<self, root, os_sep, archive_file, version, used, index,
                   sinks, made, opened, extracted, failed, effects>>
    /\ UNCHANGED cipher_vars

-----------------------------------------------------------------------------
(* Initial states and specifications. *)

Verbosities == -1..3

\* the registry UnRPA.provided_versions of the model
provided_versions == {RPA32, RPA40, RPA91, RPA1}

\* first lines of archives: of each header-tagged format, of a file that is
\* no archive, and of an empty file
Line(tag) == tag \o <<" ", "0", "\n">>
Garbage == <<"x", "\n">>
HeaderLines == {Line(TagRPA32), Line(TagRPA40), Line(TagRPA91), Garbage, <<>>}

Bytes(v) == [t |-> "bytes", v |-> v]
Str(v) == [t |-> "str", v |-> v]

\* index keys: b"a/b", "a/b", b"a\\b", b"\xff", b"\xfe"
RawKeys == {Bytes(<<97, 47, 98>>), Str(<<97, 47, 98>>), Bytes(<<97, 92, 98>>),
            Bytes(<<255>>), Bytes(<<254>>)}

\* Parts: 2-field, 3-field, and two that are neither
RawParts == {<<3, 4>>, <<5, 6, <<7>>>>, <<8>>, <<1, 2, <<>>, 9>>}

RawEntries(n) == UNION {[1..k -> RawParts] : k \in 1..n}

\* the deserialized indexes (dicts) with at most t Parts in all
RECURSIVE RawIndexes(_)
RawIndexes(t) ==
    {<<>>} \cup
    UNION {UNION {{<< <<k, e>> >> \o rest : k \in RawKeys \ Keys(rest)}
                  : rest \in RawIndexes(t - Len(e))}
           : e \in RawEntries(t)}

Blob(idx) == [ok |-> TRUE, index |-> idx]
Corrupt == [ok |-> FALSE, index |-> <<>>]

\* the archives of the extraction runs: three files b"a", b"d/b", b"c"
FixtureGood ==
    << <<Bytes(<<97>>), << <<3, 4>> >> >>,
       <<Bytes(<<100, 47, 98>>), << <<5, 6, <<7>>>>, <<9, 1>> >> >>,
       <<Bytes(<<99>>), << <<3, 4>> >> >> >>
FixtureBrokenFirstPart ==
    << <<Bytes(<<97>>), << <<3, 4>> >> >>,
       <<Bytes(<<100, 47, 98>>), << <<8>> >> >>,
       <<Bytes(<<99>>), << <<3, 4>> >> >> >>
FixtureBrokenLaterPart ==
    << <<Bytes(<<97>>), << <<3, 4>>, <<1, 2, <<>>, 9>> >> >>,
       <<Bytes(<<100, 47, 98>>), <<>> >>,
       <<Bytes(<<99>>), << <<3, 4>> >> >> >>
FixtureBlobs ==
    {Blob(FixtureGood), Blob(FixtureBrokenFirstPart),
     Blob(FixtureBrokenLaterPart), Blob(<<>>), Corrupt}

NotStarted ==
    /\ archive = "closed"
    /\ version = None
    /\ used = None
    /\ index = <<>>
    /\ file_number = 0
    /\ view = None
    /\ sinks = {}
    /\ made = {}
    /\ opened = <<>>
    /\ extracted = {}
    /\ failed = {}
    /\ printed = <<>>
    /\ effects = <<>>
    /\ exc = NoExc

CipherIdle ==
    /\ use_numpy = FALSE
    /\ plain = <<>>
    /\ source = <<>>
    /\ sink = <<>>
    /\ nfiles = 0

\* UnRPA(...) has been constructed and extract_files is called
Init ==
    /\ self \in [verbose : Verbosities, mkdir : BOOLEAN,
                 version : {None, Some(RPA32)}, continue_on_error : BOOLEAN,
                 offset_and_key : {None}, tty : BOOLEAN,
                 versions : {provided_versions,
                             provided_versions \cup {RPA32Twin}}]
    /\ root \in {"missing", "dir", "file"}
    /\ os_sep = 47
    /\ archive_file \in [ext : {ExtRpa}, header : {Line(TagRPA32), Garbage},
                         preamble : {<<1, None>>, <<1, Some(6)>>},
                         blob : FixtureBlobs]
    /\ pc = "extract_files"
    /\ NotStarted
    /\ CipherIdle

Next ==
    \/ ExtractFiles
    \/ SelectVersion
    \/ OpenArchive
    \/ GetIndex
    \/ NextEntry
    \/ ExtractFilesReturn
    \/ MakeDirectoryStructure
    \/ ExtractFile
    \/ OpenSink
    \/ Postprocess
    \/ CloseSink
    \/ ExceptClause

Spec == Init /\ [][Next]_vars

\* detect_version is about to be called, on any registry and any archive
InitDetect ==
    /\ self \in [verbose : {-1}, mkdir : {FALSE},
                 version : {None, Some(RPA91)}, continue_on_error : {FALSE},
                 offset_and_key : {None}, tty : {FALSE},
                 versions : SUBSET VersionTypes]
    /\ root = "dir"
    /\ os_sep = 47
    /\ archive_file \in [ext : {ExtRpa, ExtRpaUpper, ExtRpi}, header : HeaderLines,
                         preamble : {<<1, None>>}, blob : {Blob(<<>>)}]
    /\ pc = "select_version"
    /\ NotStarted
    /\ CipherIdle

NextDetect == SelectVersion

SpecDetect == InitDetect /\ [][NextDetect]_vars

\* get_index is about to be called, on any deserialized index, with and
\* without an override, on either kind of host
InitIndex ==
    /\ \E c \in {<<None, <<1, None>>, RPA32>>, <<None, <<1, Some(6)>>, RPA32>>,
                 <<None, <<1, None>>, RPA91>>,
                 <<Some(<<2, 5>>), <<1, Some(6)>>, RPA32>>} :
          /\ self = [verbose |-> -1, mkdir |-> FALSE, version |-> None,
                     continue_on_error |-> FALSE, offset_and_key |-> c[1],
                     tty |-> FALSE, versions |-> provided_versions]
          /\ version = Some(c[3])
          /\ archive_file \in [ext : {ExtRpa}, header : {Line(c[3].header[1])},
                               preamble : {c[2]},
                               blob : {Corrupt} \cup
                                      {Blob(i) : i \in RawIndexes(MaxTotalParts)}]
    /\ root = "dir"
    /\ os_sep \in {47, 92}
    /\ pc = "get_index"
    /\ archive = "open"
    /\ used = None
    /\ index = <<>>
    /\ file_number = 0
    /\ view = None
    /\ sinks = {}
    /\ made = {}
    /\ opened = <<>>
    /\ extracted = {}
    /\ failed = {}
    /\ printed = <<>>
    /\ effects = <<>>
    /\ exc = NoExc
    /\ CipherIdle

NextIndex == GetIndex

SpecIndex == InitIndex /\ [][NextIndex]_vars

\* RPA91() has been constructed and postprocess is called on a view
InitCipher ==
    /\ self = [verbose |-> -1, mkdir |-> FALSE, version |-> Some(RPA91),
               continue_on_error |-> FALSE, offset_and_key |-> None,
               tty |-> FALSE, versions |-> provided_versions]
    /\ root = "dir"
    /\ os_sep = 47
    /\ archive_file = [ext |-> ExtRpa, header |-> Line(TagRPA91),
                       preamble |-> <<1, None>>, blob |-> Blob(<<>>)]
    /\ NotStarted
    /\ use_numpy \in BOOLEAN
    /\ plain \in BytesUpTo(FileBytes, MaxFileLen)
    /\ source = plain
    /\ sink = <<>>
    /\ nfiles = 1
    /\ pc = "postprocess"

NextCipher ==
    \/ PostprocessNumpy
    \/ PostprocessItertools
    \/ PostprocessReturn
    \/ PostprocessNextFile

SpecCipher == InitCipher /\ [][NextCipher]_vars

-----------------------------------------------------------------------------
(* The claims. *)

raw_index == archive_file.blob.index

ResolvedPath(k) == replace_sep(ensure_str_path(k), os_sep)

WellFormedPart(part) == Len(part) \in {2, 3}

HasMalformedPart(raw) ==
    \E i \in 1..Len(raw) : \E j \in 1..Len(raw[i][2]) : ~WellFormedPart(raw[i][2][j])

\* the position of an output path in the resolved index
PosOf(path) == CHOOSE k \in 1..Len(index) : index[k][1] = path

PreLoopPcs == {"extract_files", "select_version", "open_archive", "get_index"}

\* C1: every byte RPA91.postprocess has written at position i of the file is
\* the input byte at i XOR magic[i mod 32], however read1 chunked the view
C1_CipherKeyedByFilePosition ==
    \A i \in 1..Len(sink) :
        sink[i] = Xor(plain[i], magic_bytes[((i - 1) % 32) + 1])

\* C2: detect_version raises AmbiguousArchiveError with the matching set when
\* more than one version accepts, UnknownArchiveError with the header when
\* none does, and returns the version when exactly one does
C2_DetectOutcome ==
    (pc # "select_version" /\ IsNone(self.version)) =>
        LET matching == {v \in self.versions :
                            detect(v, lower(archive_file.ext), archive_file.header)}
        IN  /\ Cardinality(matching) > 1 =>
                 /\ pc = "raised"
                 /\ exc.type = "AmbiguousArchiveError"
                 /\ exc.args = matching
                 /\ IsNone(version)
            /\ matching = {} =>
                 /\ pc = "raised"
                 /\ exc.type = "UnknownArchiveError"
                 /\ exc.args = archive_file.header
                 /\ IsNone(version)
            /\ Cardinality(matching) = 1 =>
                 /\ pc = "open_archive"
                 /\ exc.type = "None"
                 /\ ~IsNone(version)
                 /\ matching = {Get(version)}

\* two registered versions accepted the header and detection raised
C2_Witness ==
    /\ pc = "raised"
    /\ IsNone(self.version)
    /\ exc.type = "AmbiguousArchiveError"
    /\ Cardinality(exc.args) = 2

\* C3: without continue_on_error the first failing entry ends the run with
\* ErrorExtractingFile and no later entry is touched; with it, no entry's
\* failure ends the run and every entry is processed, so that at the end each
\* entry either failed or was extracted
C3_FailurePolicy ==
    /\ (~self.continue_on_error /\ failed # {}) =>
          /\ pc \in {"entry_close", "entry_except", "raised"}
          /\ failed = {file_number}
          /\ extracted = 0..(file_number - 1)
          /\ \A i \in 1..Len(opened) : PosOf(opened[i]) <= file_number + 1
          /\ pc = "raised" => exc.type = "ErrorExtractingFile"
    /\ (~self.continue_on_error /\ exc.type = "ErrorExtractingFile") =>
          /\ pc = "raised"
          /\ failed = {file_number}
    /\ self.continue_on_error =>
          /\ exc.type # "ErrorExtractingFile"
          /\ pc = "raised" => index = <<>> /\ file_number = 0
          /\ pc \in {"loop", "entry_mkdir", "done"} =>
                /\ extracted \cup failed = 0..(file_number - 1)
                /\ extracted \cap failed = {}
          /\ pc = "done" => file_number = Len(index)

\* a run that continued past a failing entry and extracted a later one
C3_Witness ==
    /\ self.continue_on_error
    /\ pc = "done"
    /\ \E i \in extracted : \E j \in failed : j < i

\* C4: under continue_on_error every failing entry leaves one record of its
\* failure, whatever the verbosity and whether or not stdout is a terminal
C4_FailureRecorded ==
    (self.continue_on_error /\ pc = "done") =>
        Cardinality({i \in 1..Len(printed) :
                        printed[i].text.kind = "Error extracting from the archive"})
          = Cardinality(failed)

\* C5: an index holding a Part that is neither 2- nor 3-field makes get_index
\* fail, so the run never enters the per-entry loop and ends with the error
\* of get_index
C5_MalformedPartStopsAtIndex ==
    HasMalformedPart(raw_index) =>
        /\ pc \in PreLoopPcs \cup {"raised"}
        /\ exc.type # "ErrorExtractingFile"

\* C6: when the output root is no directory and mkdir was not requested, the
\* run goes no further than raising OutputDirectoryNotFoundError: no version
\* is detected, the archive is not opened, no index is resolved and nothing
\* is created
C6_RootCheckedFirst ==
    (~self.mkdir /\ root # "dir") =>
        /\ pc \in {"extract_files", "raised"}
        /\ pc = "raised" => exc.type = "OutputDirectoryNotFoundError"
        /\ effects = <<>>
        /\ archive = "closed"
        /\ IsNone(version)
        /\ IsNone(used)
        /\ index = <<>>
        /\ made = {}
        /\ opened = <<>>
        /\ sinks = {}

\* the run ended on the missing output root
C6_Witness ==
    /\ ~self.mkdir
    /\ root = "missing"
    /\ pc = "raised"
    /\ exc.type = "OutputDirectoryNotFoundError"

\* the Part get_index must produce from a raw 2- or 3-field Part under key
ExpectedPart(part, key) ==
    <<IF IsNone(key) THEN part[1] ELSE Xor(part[1], Get(key)),
      IF IsNone(key) THEN part[2] ELSE Xor(part[2], Get(key)),
      IF Len(part) = 3 THEN part[3] ELSE <<>> >>

\* entry `data` of the resolved index is raw entry `entry`, Part by Part
IsResolved(data, entry, key) ==
    /\ Len(data) = Len(entry)
    /\ \A j \in 1..Len(entry) :
          /\ Len(data[j]) = 3
          /\ data[j] = ExpectedPart(entry[j], key)

\* C7: when every raw Part is 2- or 3-field, get_index returns, and every
\* entry of its result is a raw entry with the same Parts in the same order,
\* each with three fields: the offset and length XORed with the key when
\* there is one, the prefix kept, or empty for a 2-field Part
C7_PartsNormalised ==
    (pc # "get_index" /\ archive_file.blob.ok /\ ~HasMalformedPart(raw_index)) =>
        /\ pc = "loop"
        /\ \A i \in 1..Len(raw_index) : ResolvedPath(raw_index[i][1]) \in Keys(index)
        /\ \A k \in 1..Len(index) :
              \E i \in 1..Len(raw_index) :
                  /\ index[k][1] = ResolvedPath(raw_index[i][1])
                  /\ IsResolved(index[k][2], raw_index[i][2], Get(used)[2])

\* an entry of two Parts, the second of them 2-field, was resolved under a key
C7_Witness ==
    /\ pc = "loop"
    /\ ~IsNone(Get(used)[2])
    /\ \E i \in 1..Len(raw_index) :
          /\ Len(raw_index[i][2]) = 2
          /\ Len(raw_index[i][2][2]) = 2
          /\ Len(index[1][2][2]) = 3

\* C8: with an override, get_index uses its offset and key, does not call
\* find_offset_and_key and seeks to the offset before it reads; without one
\* it uses the pair of find_offset_and_key and seeks to its offset before it
\* reads the index
C8_OverrideVerbatim ==
    pc # "get_index" =>
        IF ~IsNone(self.offset_and_key)
        THEN /\ Get(used) = <<Get(self.offset_and_key)[1],
                              Some(Get(self.offset_and_key)[2])>>
             /\ effects = <<Effect("seek", Get(self.offset_and_key)[1]),
                            Effect("read", 0)>>
             /\ pc = "loop" =>
                   \A k \in 1..Len(index) :
                       \E i \in 1..Len(raw_index) :
                           IsResolved(index[k][2], raw_index[i][2],
                                      Some(Get(self.offset_and_key)[2]))
        ELSE /\ Get(used) = find_offset_and_key(Get(version), archive_file)
             /\ effects = <<Effect("find_offset_and_key", 0),
                            Effect("seek", find_offset_and_key(Get(version), archive_file)[1]),
                            Effect("read", 0)>>

\* an index was resolved with the caller's offset and key
C8_Witness ==
    /\ pc = "loop"
    /\ ~IsNone(self.offset_and_key)
    /\ Len(index) >= 1
    /\ Get(used)[2] = Some(5)

\* C9: at most one sink is open, and only while its entry is post-processed;
\* it is closed when the with block is left, before the next entry and before
\* the run ends, however it ends; sinks are opened in index order, each once
C9_SinkScoped ==
    /\ Cardinality(sinks) <= 1
    /\ pc \in {"entry_postprocess", "entry_close"} => sinks = {item[1]}
    /\ pc \notin {"entry_postprocess", "entry_close"} => sinks = {}
    /\ \A i \in 1..Len(opened) :
          /\ opened[i] \in Keys(index)
          /\ PosOf(opened[i]) <= file_number + 1
          /\ \A j \in 1..Len(opened) : i < j => PosOf(opened[i]) < PosOf(opened[j])

\* postprocess raised on an open sink and the except clause is reached with
\* the sink closed
C9_Witness ==
    /\ pc = "entry_except"
    /\ opened # <<>>
    /\ opened[Len(opened)] = item[1]
    /\ sinks = {}

\* C10: the resolved index has one entry per entry of the deserialized index
C10_OneEntryPerRawEntry ==
    pc = "loop" => Len(index) = Len(raw_index)

====
